---- MODULE Spec2Model ----
(***************************************************************************)
(* Voice assistant client: VAD-driven speech segmentation and the          *)
(* Whisper -> LLM -> TTS pipeline.  Two orchestrators are modelled over    *)
(* the same components (Recorder, AudioBufferManager, VAD, Whisper, LLM,   *)
(* TTSEngine):                                                             *)
(*   variant "A" : src/client/assistant.js  (cancellable post-roll timer)  *)
(*   variant "B" : src/unnamed/part_000     (speaking-flag check after an  *)
(*                                           awaited post-roll delay)      *)
(* Every action is one JavaScript task: an event handler or the part of an *)
(* async function between two awaits that wait for the outside world.      *)
(* Spec is the running page.  EmitSpec drives the listener registry of     *)
(* VAD / TTSEngine on its own, BufSpec a Recorder and an                   *)
(* AudioBufferManager, with every sequence of calls of their methods.      *)
(* HistSpec is the part_000 page with its clear button, TtsSpec the page    *)
(* with and without speechSynthesis, and FnSpec calls LLM.complete,        *)
(* Whisper.transcribe and Recorder.createWavBlob on bounded inputs.        *)
(***************************************************************************)
EXTENDS Integers, Sequences, FiniteSets, TLC

\* ------------------------------------------------------------------ bounds
MaxFrames   == 2    \* audio frames delivered by the worklet in one behaviour
MaxStarts   == 2    \* speech_start notifications delivered
MaxEnds     == 2    \* speech_end notifications delivered
MaxSessions == 1    \* clicks on the start button
FrameLen    == 8000 \* samples in one delivered frame
MaxListeners == 2   \* callbacks registered for one event name
MaxPushes   == 4    \* frames pushed into a buffer driven on its own
MaxSamples  == 2    \* samples handed to createWavBlob
SampleDen   == 4    \* a sample is q / SampleDen, q an integer

\* ------------------------------------------------------- program constants
SAMPLE_RATE   == 16000
PRE_ROLL_TIME == 2

\* speechBuf.length < (SAMPLE_RATE * 0.5)
MinSamples == SAMPLE_RATE \div 2

VARIABLES
  variant,      \* "A" = client/assistant.js, "B" = unnamed/part_000
  env,          \* page configuration: [synthOK, cfgOK, ttsOn]
  ui,           \* [startDisabled, stopDisabled, status]
  chat,         \* bubbles appended to chatContainer: set of [run, role, text]
  sess,         \* number of startDetection calls so far (component identity)
  startPc,      \* where startDetection of the current session waits
  stale,        \* startDetection calls orphaned by a stop, still to reject
  stopping,     \* stopDetection calls waiting in `await recorder.stop()`
  vad,          \* global vad: [on, sock, wired]
  recorder,     \* global recorder: [on, ctx, live, isRecording, preRoll, buffer, speechActive]
  clients,      \* whisper and llm globals are non-null
  tts,          \* global tts: [on, isPlaying, utterance, wired]
  synth,        \* window.speechSynthesis: [phase, utt, owner]
  synthEvts,    \* end/error events queued by speechSynthesis.cancel()
  postRollTimer,\* global postRollTimer: 0 = null, else timer id
  runs,         \* pending timers and awaiting pipeline continuations
  nid,          \* next timer / run id
  speaking, ttsSpeaking, textQuery, chatHistory,   \* part_000 globals
  calls,        \* requests issued to Whisper, the LLM and speechSynthesis (a set)
  nframes, nstarts, nends,                         \* input counters
  hist,         \* observation of the inputs:
                \*   seg        frames delivered since the utterance opened
                \*   open       a speech_start was the last speech notification
                \*   barge      a speech_start was handled during playback
                \*   lastEmit   name of the last other notification emitted
                \*   connFailed session whose connect() rejected
                \*   sockLost   session whose socket closed while it was running
  listeners,    \* an emitter's Map: event name -> callbacks in registration order
  emitted,      \* the last _emit: [event, called, threw]
  abm,          \* an AudioBufferManager driven on its own: [buffer, speechActive]
  ended,        \* what the calls of abm.endSpeech() returned, oldest first
  trace,        \* observation of a buffer driven on its own:
                \*   active  the last start/end event was a start
                \*   loud    frames delivered while active
                \*   quiet   frames delivered while not active
                \*   pend    frames delivered while active since the last start or end
                \*   last    the last event
  probe         \* a function called on its own: [fn, arg, out]

vars == <<variant, env, ui, chat, sess, startPc, stale, stopping, vad, recorder,
          clients, tts, synth, synthEvts, postRollTimer, runs, nid, speaking,
          ttsSpeaking, textQuery, chatHistory, calls, nframes, nstarts, nends, hist,
          listeners, emitted, abm, ended, trace, probe>>

\* ----------------------------------------------------------------- helpers
RECURSIVE SumLen(_)
SumLen(s) == IF s = <<>> THEN 0 ELSE (Head(s).hi - Head(s).lo + 1) + SumLen(Tail(s))

\* Float32Array.slice(n): drop the first n samples of a chunk sequence
RECURSIVE DropFront(_, _)
DropFront(s, n) ==
  IF n <= 0 \/ s = <<>> THEN s
  ELSE LET h == Head(s)
           l == h.hi - h.lo + 1
       IN IF l <= n THEN DropFront(Tail(s), n - l)
          ELSE <<[h EXCEPT !.lo = h.lo + n]>> \o Tail(s)

\* a frame delivered by the worklet: FrameLen samples of frame number f
Frame(f) == [f |-> f, lo |-> 1, hi |-> FrameLen]

\* -------------------------------------------------- AudioBufferManager
\* the manager is the pair (buffer, speechActive) inside the recorder record
\* variation of push that accepts a chunk whether or not speech is active
ABM_push_Always(r, chunk) == [r EXCEPT !.buffer = Append(r.buffer, chunk)]

ABM_push(r, chunk) ==
  IF r.speechActive THEN [r EXCEPT !.buffer = Append(r.buffer, chunk)] ELSE r

ABM_startSpeech(r) == [r EXCEPT !.speechActive = TRUE, !.buffer = <<>>]

\* one Float32Array holding the chunks in push order
ABM_getBuffer(r) == r.buffer

\* variation of clear that keeps the chunks
ABM_clear_Keeps(r) == r

ABM_clear(r) == [r EXCEPT !.buffer = <<>>]

\* new AudioBufferManager()
NewABM == [buffer |-> <<>>, speechActive |-> FALSE]

\* endSpeech(): the manager it leaves and the array it returns
ABM_endSpeech(r) ==
  LET r1 == [r EXCEPT !.speechActive = FALSE]
      result == ABM_getBuffer(r1)
  IN [abm |-> ABM_clear(r1), result |-> result]

\* ------------------------------------------------------------- Recorder
preRollSamples == SAMPLE_RATE * PRE_ROLL_TIME

NoRecorder ==
  [on |-> FALSE, ctx |-> FALSE, live |-> FALSE, isRecording |-> FALSE,
   preRoll |-> <<>>, buffer |-> <<>>, speechActive |-> FALSE]

NewRecorder == [NoRecorder EXCEPT !.on = TRUE]

\* variation of markSpeechStart that keeps what the buffer holds
markSpeechStart_KeepsBuffer(r) == [r EXCEPT !.isRecording = TRUE, !.speechActive = TRUE]

markSpeechStart(r) ==
  IF r.isRecording THEN r
  ELSE ABM_startSpeech([r EXCEPT !.isRecording = TRUE])

\* variation of markSpeechEnd that leaves the recording open
markSpeechEnd_KeepsRecording(r) == r

markSpeechEnd(r) == [r EXCEPT !.isRecording = FALSE]

getSpeechBuffer(r) == ABM_getBuffer(r)

clearSpeechBuffer(r) == ABM_clear(r)

\* variation of _handleAudioData that never cuts the pre-roll buffer
handleAudioData_NoEvict(r, chunk) ==
  IF r.isRecording THEN ABM_push(r, chunk)
  ELSE [r EXCEPT !.preRoll = r.preRoll \o <<chunk>>]

handleAudioData(r, chunk) ==
  IF r.isRecording THEN ABM_push(r, chunk)
  ELSE LET newBuf == r.preRoll \o <<chunk>>
       IN IF SumLen(newBuf) > preRollSamples
          THEN [r EXCEPT !.preRoll = DropFront(newBuf, SumLen(newBuf) - preRollSamples)]
          ELSE [r EXCEPT !.preRoll = newBuf]

\* Recorder.stop() up to `await this.audioContext.close()`
Recorder_stopSync(r) == [r EXCEPT !.live = FALSE]

\* Recorder.stop() after the await
Recorder_stopRest(r) ==
  [r EXCEPT !.ctx = FALSE, !.preRoll = <<>>, !.isRecording = FALSE]

\* ---------------------------------------------------------------- UI
\* log(message, state): only the state argument is kept
log(u, state) == [u EXCEPT !.status = state]

\* ------------------------------------------------------------ TTSEngine
\* The engine, the browser's speechSynthesis and the page are threaded
\* through the methods as one record w = [tts, synth, evts, ui].
NoTTS == [on |-> FALSE, isPlaying |-> FALSE, utterance |-> 0, wired |-> FALSE]

NewTTS == [NoTTS EXCEPT !.on = TRUE]

SynthIdle == [phase |-> "idle", utt |-> 0, owner |-> 0]

\* tts.on('end') and tts.on('error') listeners of startDetection
ttsOnEndListener(u) == IF ~u.stopDisabled THEN log(u, "idle") ELSE u

\* tts.on('start') listener of startDetection
ttsOnStartListener(u) == log(u, "idle")

\* window.speechSynthesis.cancel(): the queue is emptied; the utterance that
\* was queued or spoken gets its end/error event later, as a task
synthCancel(w) ==
  IF w.synth.phase = "idle" THEN w
  ELSE [w EXCEPT !.synth = SynthIdle,
                 !.evts = Append(w.evts, [utt |-> w.synth.utt,
                                          owner |-> w.synth.owner])]

TTS_isPlaying(t) == t.isPlaying

\* variation of stop that resets the engine and leaves the playback alone
TTS_stop_NoCancel(w) ==
  LET w2 == [w EXCEPT !.tts.isPlaying = FALSE, !.tts.utterance = 0]
  IN IF w2.tts.wired THEN [w2 EXCEPT !.ui = ttsOnEndListener(w2.ui)] ELSE w2

TTS_stop(w) ==
  LET w1 == IF env.synthOK THEN synthCancel(w) ELSE w
      w2 == [w1 EXCEPT !.tts.isPlaying = FALSE, !.tts.utterance = 0]
  IN IF w2.tts.wired THEN [w2 EXCEPT !.ui = ttsOnEndListener(w2.ui)] ELSE w2

\* speak(text) for pipeline run k, up to speechSynthesis.speak(utterance);
\* only called when 'speechSynthesis' in window
TTS_speakQueued(w, k) ==
  LET w1 == synthCancel(w)
  IN [w1 EXCEPT !.tts.utterance = k,
                !.synth = [phase |-> "pending", utt |-> k, owner |-> sess]]

\* speak(text) when speechSynthesis is missing: emit('error'), reject
TTS_speakUnsupported(w) ==
  IF w.tts.wired THEN [w EXCEPT !.ui = ttsOnEndListener(w.ui)] ELSE w

\* is the engine that created an utterance still the global tts ?
IsCurrentTTS(t, owner) == t.on /\ owner = sess

\* utterance.onstart
TTS_onstart(w, owner) ==
  IF IsCurrentTTS(w.tts, owner)
  THEN LET w1 == [w EXCEPT !.tts.isPlaying = TRUE]
       IN IF w1.tts.wired THEN [w1 EXCEPT !.ui = ttsOnStartListener(w1.ui)] ELSE w1
  ELSE [w EXCEPT !.ui = ttsOnStartListener(w.ui)]

\* utterance.onend and utterance.onerror: the same effect on the engine and,
\* through the 'end' / 'error' listeners, on the page
TTS_onend(w, owner) ==
  IF IsCurrentTTS(w.tts, owner)
  THEN LET w1 == [w EXCEPT !.tts.isPlaying = FALSE, !.tts.utterance = 0]
       IN IF w1.tts.wired THEN [w1 EXCEPT !.ui = ttsOnEndListener(w1.ui)] ELSE w1
  ELSE [w EXCEPT !.ui = ttsOnEndListener(w.ui)]

World == [tts |-> tts, synth |-> synth, evts |-> synthEvts, ui |-> ui]

SetWorld(w) ==
  /\ tts' = w.tts
  /\ synth' = w.synth
  /\ synthEvts' = w.evts
  /\ ui' = w.ui

\* ------------------------------------------------------------------ VAD
NoVAD == [on |-> FALSE, sock |-> "closed", wired |-> FALSE]

\* new VAD(url); connect() up to the awaited promise: new WebSocket(url)
NewVAD == [on |-> TRUE, sock |-> "connecting", wired |-> FALSE]

\* socket.onmessage: the name under which a message is emitted.  A message is
\* [json, event, error]: json = FALSE when JSON.parse or the property access
\* throws; event = "" when msg.event is missing or falsy.
\* variation of socket.onmessage that ignores the event field
VAD_onmessage_NoEventField(m) ==
  IF ~m.json THEN "error"
  ELSE IF m.error THEN "error"
  ELSE "message"

VAD_onmessage(m) ==
  IF ~m.json THEN "error"
  ELSE IF m.event # "" THEN m.event
  ELSE IF m.error THEN "error"
  ELSE "message"

\* ------------------------------------- listeners of VAD and TTSEngine
\* on / off / _emit are the same code in both classes.  A callback is a
\* number; the callbacks in Throwing throw when they are called.
EventNames == {"speech_start", "error"}

Callbacks == 1..3

Throwing == {2}

\* new Map(): no event name has callbacks
NoListeners == [e \in EventNames |-> <<>>]

NotEmitted == [event |-> "", called |-> <<>>, threw |-> FALSE]

\* on(eventName, cb)
on(ls, e, cb) == [ls EXCEPT ![e] = Append(@, cb)]

\* off(eventName, cb): filter(f => f !== cb)
off(ls, e, cb) == [ls EXCEPT ![e] = SelectSeq(@, LAMBDA f : f # cb)]

\* variation of the loop body without try / catch
callListener_NoCatch(cb) == cb \in Throwing

\* try { cb(payload); } catch (e) { console.error(...) }: does the call throw
\* out of the loop body ?
callListener(cb) == FALSE

\* for (const cb of arr): the callbacks called, in order, and whether _emit
\* threw to its caller
RECURSIVE emitLoop(_, _)
emitLoop(arr, called) ==
  IF arr = <<>> THEN [called |-> called, threw |-> FALSE]
  ELSE IF callListener(Head(arr))
  THEN [called |-> Append(called, Head(arr)), threw |-> TRUE]
  ELSE emitLoop(Tail(arr), Append(called, Head(arr)))

\* _emit(eventName, payload)
emit(ls, e) ==
  LET res == emitLoop(ls[e], <<>>)
  IN [event |-> e, called |-> res.called, threw |-> res.threw]

\* ------------------------------------------ observation of a driven buffer
\* no function has been called
NoProbe == [fn |-> "", arg |-> <<>>, out |-> <<>>]

NoTrace ==
  [active |-> FALSE, loud |-> <<>>, quiet |-> <<>>, pend |-> <<>>, last |-> "none"]

\* ---------------------------------------------------------------- timers
clearTimeout(rs, id) == {r \in rs : ~(r.id = id /\ r.pc = "timer")}

\* ----------------------------------------------------- page configuration
GoodEnv == [synthOK |-> TRUE, cfgOK |-> TRUE, ttsOn |-> TRUE, sysPrompt |-> FALSE]

Envs ==
  { GoodEnv,
    [GoodEnv EXCEPT !.synthOK = FALSE],
    [GoodEnv EXCEPT !.cfgOK = FALSE],
    [GoodEnv EXCEPT !.sysPrompt = TRUE] }

\* the state after the module body ran, on a page configured as one of E
InitWith(E) ==
  /\ variant \in {"A", "B"}
  /\ env \in E
  /\ ui = [startDisabled |-> FALSE, stopDisabled |-> TRUE, status |-> "idle"]
  /\ chat = {}
  /\ sess = 0
  /\ startPc = "none"
  /\ stale = 0
  /\ stopping = 0
  /\ vad = NoVAD
  /\ recorder = NoRecorder
  /\ clients = FALSE
  /\ tts = NoTTS
  /\ synth = SynthIdle
  /\ synthEvts = <<>>
  /\ postRollTimer = 0
  /\ runs = {}
  /\ nid = 1
  /\ speaking = FALSE
  /\ ttsSpeaking = FALSE
  /\ textQuery = <<>>
  /\ chatHistory = <<>>
  /\ calls = {}
  /\ nframes = 0
  /\ nstarts = 0
  /\ nends = 0
  /\ hist = [seg |-> <<>>, open |-> FALSE, barge |-> FALSE, lastEmit |-> "",
             connFailed |-> 0, sockLost |-> 0,
             restart |-> FALSE, lost |-> <<>>, gap |-> <<>>]
  /\ listeners = NoListeners
  /\ emitted = NotEmitted
  /\ abm = NewABM
  /\ ended = <<>>
  /\ trace = NoTrace
  /\ probe = NoProbe

\* the page as shipped: speech synthesis present, LLM fields filled in, voice
\* output ticked, no system prompt
Init == InitWith({GoodEnv})

\* ------------------------------------------------------- stopDetection
\* The part of stopDetection after `await recorder.stop()`.
StopRest(w) ==
  /\ recorder' = NoRecorder
  /\ clients' = FALSE
  /\ tts' = NoTTS
  /\ synth' = w.synth
  /\ synthEvts' = w.evts
  /\ ui' = [startDisabled |-> FALSE, stopDisabled |-> TRUE, status |-> "idle"]

\* stopDetection() called with the page in state u0.  Recorder.stop() only
\* waits for a task when an AudioContext has to be closed; otherwise the whole
\* function runs before any other task.
stopDetection(u0) ==
  LET w0 == [World EXCEPT !.ui = u0]
      w1 == IF tts.on THEN TTS_stop(w0) ELSE w0
  IN /\ postRollTimer' = 0
     /\ runs' = IF postRollTimer # 0 THEN clearTimeout(runs, postRollTimer) ELSE runs
     /\ vad' = NoVAD
     /\ IF recorder.on /\ recorder.ctx
        THEN /\ recorder' = Recorder_stopSync(recorder)
             /\ stopping' = stopping + 1
             /\ clients' = clients
             /\ SetWorld(w1)
        ELSE /\ stopping' = stopping
             /\ StopRest(w1)

\* a startDetection that is still waiting when stopDetection runs will find
\* its socket or its AudioContext closed: it rejects later
Orphaned == IF startPc # "none" THEN 1 ELSE 0

pipeUnch == UNCHANGED <<speaking, ttsSpeaking, textQuery, chatHistory, calls, nid>>
inputUnch == UNCHANGED <<nframes, nstarts, nends>>
fixedUnch == UNCHANGED <<variant, env, listeners, emitted, abm, ended, trace, probe>>

\* ------------------------------------------------------ startDetection
\* click on start-btn: startDetection up to `await vad.connect()`
StartClick ==
  /\ ~ui.startDisabled
  /\ stopping = 0
  /\ sess < MaxSessions
  /\ sess' = sess + 1
  /\ ui' = [startDisabled |-> TRUE, stopDisabled |-> FALSE, status |-> "processing"]
  /\ recorder' = NewRecorder
  /\ vad' = NewVAD
  /\ clients' = TRUE
  /\ tts' = NewTTS
  /\ startPc' = "connect"
  /\ hist' = [hist EXCEPT !.open = FALSE, !.seg = <<>>, !.restart = FALSE,
                          !.lost = <<>>, !.gap = <<>>]
  /\ UNCHANGED <<chat, stale, stopping, synth, synthEvts, postRollTimer, runs>>
  /\ pipeUnch /\ inputUnch /\ fixedUnch

\* socket.onopen: connect() resolves; startDetection runs up to
\* `await recorder.start()` (Recorder.init creates the AudioContext)
SocketOpen ==
  /\ startPc = "connect"
  /\ vad.on /\ vad.sock = "connecting"
  /\ vad' = [vad EXCEPT !.sock = "open"]
  /\ ui' = log(ui, "processing")
  /\ recorder' = [recorder EXCEPT !.ctx = TRUE]
  /\ startPc' = "mic"
  /\ UNCHANGED <<chat, sess, stale, stopping, clients, tts, synth, synthEvts,
                 postRollTimer, runs, hist>>
  /\ pipeUnch /\ inputUnch /\ fixedUnch

\* socket.onerror while connecting: connect() rejects, the catch block of
\* startDetection logs the error and calls stopDetection()
SocketConnectFails ==
  /\ startPc = "connect"
  /\ vad.on /\ vad.sock = "connecting"
  /\ stopDetection(log(ui, "error"))
  /\ startPc' = "none"
  /\ hist' = [hist EXCEPT !.connFailed = sess]
  /\ UNCHANGED <<chat, sess, stale>>
  /\ pipeUnch /\ inputUnch /\ fixedUnch

\* recorder.start() resolves: capture runs, the VAD and TTS listeners are added
MicGranted ==
  /\ startPc = "mic"
  /\ recorder' = [recorder EXCEPT !.live = TRUE]
  /\ ui' = log(ui, "idle")
  /\ vad' = [vad EXCEPT !.wired = TRUE]
  /\ tts' = [tts EXCEPT !.wired = TRUE]
  /\ startPc' = "none"
  /\ UNCHANGED <<chat, sess, stale, stopping, clients, synth, synthEvts,
                 postRollTimer, runs, hist>>
  /\ pipeUnch /\ inputUnch /\ fixedUnch

\* recorder.start() rejects (getUserMedia refused): catch block
MicDenied ==
  /\ startPc = "mic"
  /\ stopDetection(log(ui, "error"))
  /\ startPc' = "none"
  /\ UNCHANGED <<chat, sess, stale, hist>>
  /\ pipeUnch /\ inputUnch /\ fixedUnch

\* click on stop-btn
StopClick ==
  /\ ~ui.stopDisabled
  /\ stopping = 0
  /\ stopDetection(ui)
  /\ startPc' = "none"
  /\ stale' = stale + Orphaned
  /\ UNCHANGED <<chat, sess, hist>>
  /\ pipeUnch /\ inputUnch /\ fixedUnch

\* audioContext.close() settles: the rest of Recorder.stop and stopDetection
StopFinish ==
  /\ stopping > 0
  /\ stopping' = stopping - 1
  /\ StopRest(World)
  /\ UNCHANGED <<chat, sess, startPc, stale, vad, postRollTimer, runs, hist>>
  /\ pipeUnch /\ inputUnch /\ fixedUnch

\* an orphaned startDetection rejects: its catch block logs and calls
\* stopDetection() on whatever the globals hold now
StaleStartFails ==
  /\ stale > 0
  /\ stopDetection(log(ui, "error"))
  /\ startPc' = "none"
  /\ stale' = stale - 1 + Orphaned
  /\ UNCHANGED <<chat, sess, hist>>
  /\ pipeUnch /\ inputUnch /\ fixedUnch

\* socket.onclose on the open socket (server or network): _emit('close'),
\* for which nothing is registered
SocketClosed ==
  /\ vad.on /\ vad.sock = "open"
  /\ vad' = [vad EXCEPT !.sock = "closed"]
  /\ hist' = [hist EXCEPT !.sockLost = IF vad.wired THEN sess ELSE @]
  /\ UNCHANGED <<ui, chat, sess, startPc, stale, stopping, recorder, clients, tts,
                 synth, synthEvts, postRollTimer, runs>>
  /\ pipeUnch /\ inputUnch /\ fixedUnch

\* ---------------------------------------------------------------- audio
\* workletNode.port.onmessage: _handleAudioData, then the onAudio callback
\* (vad.sendAudio, which changes nothing here: the frame goes to the socket
\* when it is open and is dropped otherwise)
AudioFrame ==
  /\ recorder.on /\ recorder.live
  /\ nframes < MaxFrames
  /\ nframes' = nframes + 1
  /\ recorder' = handleAudioData(recorder, Frame(nframes + 1))
  /\ hist' = IF hist.open THEN [hist EXCEPT !.seg = Append(@, Frame(nframes + 1))]
             ELSE [hist EXCEPT !.gap = Append(@, Frame(nframes + 1))]
  /\ UNCHANGED <<ui, chat, sess, startPc, stale, stopping, vad, clients, tts, synth,
                 synthEvts, postRollTimer, runs, nstarts, nends>>
  /\ pipeUnch /\ fixedUnch


\* ------------------------------------------------------------ pipeline
\* Texts are sequences of tokens; "" is <<>> and += is concatenation.
\* Whisper of run k hears <<k>>; the LLM's reply to run k in field j of the
\* response body is <<-(10k + j)>>.  A run remembers what the speech_end that
\* created it saw: open (an utterance was open), seg (its frames), and sup
\* (history also keeps: gap, the frames delivered since the utterance closed;
\* restart, the speech_start that opened the utterance came during a post-roll
\* delay; lost, the frames that utterance's buffer held at the restart and
\* the frames of the pause before it)
\* (a speech_start arrived while its post-roll delay was pending).
NewRun(id, pc) ==
  [id |-> id, sess |-> sess, pc |-> pc, sup |-> FALSE, open |-> hist.open,
   seg |-> hist.seg, text |-> <<>>]

Call(op, r, audio, msgs, text) ==
  [op |-> op, run |-> r.id, sess |-> r.sess, now |-> sess, audio |-> audio,
   msgs |-> msgs, text |-> text, sup |-> r.sup, open |-> r.open, seg |-> r.seg]

\* Recorder.createWavBlob: 44 header bytes and two bytes per sample
createWavBlob(buf) == [bytes |-> 44 + 2 * SumLen(buf), data |-> buf]

\* Whisper.transcribe, from the HTTP response to the returned value
WhisperResponses == [ok : BOOLEAN, result_text : {"none", "text"}]

\* variation of transcribe that answers a missing result_text with ""
Whisper_transcribe_Lenient(resp, k) ==
  IF ~resp.ok THEN [throw |-> TRUE, text |-> <<>>]
  ELSE [throw |-> FALSE, text |-> IF resp.result_text = "text" THEN <<k>> ELSE <<>>]

Whisper_transcribe(resp, k) ==
  IF ~resp.ok THEN [throw |-> TRUE, text |-> <<>>]
  ELSE IF resp.result_text = "none" THEN [throw |-> TRUE, text |-> <<>>]
  ELSE [throw |-> FALSE, text |-> IF resp.result_text = "text" THEN <<k>> ELSE <<>>]

\* LLM.complete up to fetch(): the request's messages, or a throw.  Without a
\* messages array the code reads `prompt`, which is no parameter of complete:
\* it is the page's global prompt function, and prompt.trim() throws.
LLM_request(cfgOK, messages, systemPrompt) ==
  IF ~cfgOK THEN [throw |-> TRUE, messages |-> <<>>]
  ELSE IF Len(messages) > 0
  THEN LET chatMessages == [i \in 1..Len(messages) |->
                              [role |-> messages[i].role, content |-> messages[i].text]]
       IN [throw |-> FALSE,
           messages |-> IF systemPrompt
                        THEN <<[role |-> "system", content |-> <<0>>]>> \o chatMessages
                        ELSE chatMessages]
  ELSE [throw |-> TRUE, messages |-> <<>>]

\* LLM.complete after fetch(): bodies the service can answer with
LLMResponses ==
  { [ok |-> FALSE, content |-> "none", alt |-> "none", output_text |-> "none"],
    [ok |-> TRUE,  content |-> "none", alt |-> "none", output_text |-> "none"],
    [ok |-> TRUE,  content |-> "text", alt |-> "text", output_text |-> "none"] }

Reply(k, j, field) == IF field = "text" THEN <<0 - (10 * k + j)>> ELSE <<>>

\* variation of the parsing that looks at choices[0].text first
LLM_parse_AltFirst(resp, k) ==
  IF ~resp.ok THEN [throw |-> TRUE, text |-> <<>>]
  ELSE IF resp.alt # "none" THEN [throw |-> FALSE, text |-> Reply(k, 2, resp.alt)]
  ELSE IF resp.content # "none" THEN [throw |-> FALSE, text |-> Reply(k, 1, resp.content)]
  ELSE IF resp.output_text # "none"
  THEN [throw |-> FALSE, text |-> Reply(k, 3, resp.output_text)]
  ELSE [throw |-> TRUE, text |-> <<>>]

LLM_parse(resp, k) ==
  IF ~resp.ok THEN [throw |-> TRUE, text |-> <<>>]
  ELSE IF resp.content # "none" THEN [throw |-> FALSE, text |-> Reply(k, 1, resp.content)]
  ELSE IF resp.alt # "none" THEN [throw |-> FALSE, text |-> Reply(k, 2, resp.alt)]
  ELSE IF resp.output_text # "none"
  THEN [throw |-> FALSE, text |-> Reply(k, 3, resp.output_text)]
  ELSE [throw |-> TRUE, text |-> <<>>]

\* variation of addMessageToChat that starts the history over with the turn
addMessageToChat_StartsOver(h, role, text) == <<[role |-> role, text |-> text]>>

\* addMessageToChat of part_000: the history skips a consecutive duplicate
addMessageToChat(h, role, text) ==
  IF Len(h) = 0 \/ h[Len(h)].role # role \/ h[Len(h)].text # text
  THEN Append(h, [role |-> role, text |-> text])
  ELSE h

\* the bubble appended to chatContainer (both orchestrators)
Bubble(r, role, text) == [run |-> r.id, role |-> role, text |-> text]

ErrText == <<0>>

\* timers that a speech_start finds pending: speech resumed in their window
Supersede(rs) == {IF r.pc = "timer" THEN [r EXCEPT !.sup = TRUE] ELSE r : r \in rs}

Detecting == vad.on /\ vad.sock = "open" /\ vad.wired

\* a post-roll delay is running: a speech_start now is a restart
GraceOpen ==
  IF variant = "A" THEN postRollTimer # 0 ELSE \E r \in runs : r.pc = "timer"

\* ------------------------------------------------- vad.on('speech_start')
SpeechStartA ==
  LET w1 == IF tts.on /\ TTS_isPlaying(tts) THEN TTS_stop(World) ELSE World
      rs == IF postRollTimer # 0 THEN clearTimeout(runs, postRollTimer) ELSE runs
  IN /\ SetWorld([w1 EXCEPT !.ui = log(w1.ui, "speaking")])
     /\ runs' = Supersede(rs)
     /\ postRollTimer' = 0
     /\ recorder' = markSpeechStart(recorder)
     /\ UNCHANGED <<speaking, ttsSpeaking>>

\* variation of the part_000 listener that stops playback but keeps the flag
SpeechStartB_KeepsFlag ==
  /\ recorder' = markSpeechStart(recorder)
  /\ speaking' = TRUE
  /\ IF ttsSpeaking THEN SetWorld(TTS_stop(World)) ELSE SetWorld(World)
  /\ ttsSpeaking' = ttsSpeaking
  /\ runs' = Supersede(runs)
  /\ UNCHANGED postRollTimer

SpeechStartB ==
  /\ recorder' = markSpeechStart(recorder)
  /\ speaking' = TRUE
  /\ IF ttsSpeaking THEN SetWorld(TTS_stop(World)) ELSE SetWorld(World)
  /\ ttsSpeaking' = FALSE
  /\ runs' = Supersede(runs)
  /\ UNCHANGED postRollTimer

SpeechStart ==
  /\ Detecting
  /\ nstarts < MaxStarts
  /\ nstarts' = nstarts + 1
  /\ IF variant = "A" THEN SpeechStartA ELSE SpeechStartB
  /\ hist' = [hist EXCEPT !.open = TRUE, !.seg = IF hist.open THEN @ ELSE <<>>,
                          !.barge = @ \/ synth.phase = "speaking",
                          !.restart = GraceOpen,
                          !.lost = IF hist.open THEN @
                                   ELSE IF GraceOpen
                                   THEN getSpeechBuffer(recorder) \o hist.gap
                                   ELSE <<>>]
  /\ UNCHANGED <<chat, sess, startPc, stale, stopping, vad, clients, nid,
                 textQuery, chatHistory, calls, nframes, nends>>
  /\ fixedUnch

\* --------------------------------------------------- vad.on('speech_end')
SpeechEndA ==
  /\ ui' = log(ui, "processing")
  /\ recorder' = markSpeechEnd(recorder)
  /\ runs' = (IF postRollTimer # 0 THEN clearTimeout(runs, postRollTimer) ELSE runs)
             \cup {NewRun(nid, "timer")}
  /\ postRollTimer' = nid
  /\ UNCHANGED speaking

\* up to `await new Promise(resolve => setTimeout(resolve, POST_ROLL_TIME))`
SpeechEndB ==
  /\ speaking' = FALSE
  /\ runs' = runs \cup {NewRun(nid, "timer")}
  /\ UNCHANGED <<ui, recorder, postRollTimer>>

SpeechEnd ==
  /\ Detecting
  /\ nends < MaxEnds
  /\ nends' = nends + 1
  /\ nid' = nid + 1
  /\ IF variant = "A" THEN SpeechEndA ELSE SpeechEndB
  /\ hist' = [hist EXCEPT !.open = FALSE, !.gap = IF hist.open THEN <<>> ELSE @]
  /\ UNCHANGED <<chat, sess, startPc, stale, stopping, vad, clients, tts, synth,
                 synthEvts, ttsSpeaking, textQuery, chatHistory, calls, nframes, nstarts>>
  /\ fixedUnch


EndRun(r) == runs \ {r}
Await(r, pc, text) == (runs \ {r}) \cup {[r EXCEPT !.pc = pc, !.text = text]}

\* the outer catch of sendSpeechBufferToWhisperAndLLM, and its LLM catch
ReportError(u, c, r) ==
  /\ ui' = log(u, "error")
  /\ chat' = c \cup {Bubble(r, "error", ErrText)}

\* --------------------------------------------------- post-roll expiry
\* assistant.js: the setTimeout callback, sendSpeechBufferToWhisperAndLLM up
\* to `await whisper.transcribe(...)`
TimerFireA(r) ==
  /\ postRollTimer' = 0
  /\ IF ~recorder.on
     THEN /\ ReportError(ui, chat, r)
          /\ runs' = EndRun(r)
          /\ UNCHANGED <<recorder, calls>>
     ELSE LET speechBuf == getSpeechBuffer(recorder)
          IN IF SumLen(speechBuf) < MinSamples
             THEN /\ ui' = log(ui, "idle")
                  /\ recorder' = clearSpeechBuffer(recorder)
                  /\ runs' = EndRun(r)
                  /\ UNCHANGED <<chat, calls>>
             ELSE LET wavBlob == createWavBlob(speechBuf)
                  IN /\ recorder' = clearSpeechBuffer(recorder)
                     /\ IF ~clients
                        THEN /\ ReportError(ui, chat, r)
                             /\ runs' = EndRun(r)
                             /\ UNCHANGED calls
                        ELSE /\ ui' = log(ui, "processing")
                             /\ calls' = calls \cup {Call("transcribe", r, wavBlob.data, <<>>, <<>>)}
                             /\ runs' = Await(r, "whisper", <<>>)
                             /\ UNCHANGED chat

\* part_000: the speech_end listener after the awaited delay, up to
\* `await whisper.transcribe(wavBlob)`; a throw here is an unhandled rejection
TimerFireB(r) ==
  /\ UNCHANGED <<postRollTimer, ui, chat>>
  /\ IF speaking \/ ~recorder.on
     THEN /\ runs' = EndRun(r)
          /\ UNCHANGED <<recorder, calls>>
     ELSE LET rec == markSpeechEnd(recorder)
              buffer == getSpeechBuffer(rec)
              wavBlob == createWavBlob(buffer)
          IN /\ recorder' = rec
             /\ IF ~clients
                THEN /\ runs' = EndRun(r)
                     /\ UNCHANGED calls
                ELSE /\ calls' = calls \cup {Call("transcribe", r, wavBlob.data, <<>>, <<>>)}
                     /\ runs' = Await(r, "whisper", <<>>)

\* timers of one delay fire in the order in which they were set
TimerFire(r) ==
  /\ r.pc = "timer"
  /\ \A q \in runs : q.pc = "timer" => r.id <= q.id
  /\ IF variant = "A" THEN TimerFireA(r) ELSE TimerFireB(r)
  /\ UNCHANGED <<sess, startPc, stale, stopping, vad, clients, tts, synth, synthEvts,
                 nid, speaking, ttsSpeaking, textQuery, chatHistory, hist>>
  /\ inputUnch /\ fixedUnch

\* ------------------------------------------------ transcription settles
\* assistant.js lines 83-96 and the catch blocks
WhisperDoneA(r, res) ==
  /\ UNCHANGED <<textQuery, chatHistory>>
  /\ IF res.throw
     THEN /\ ReportError(ui, chat, r)
          /\ runs' = EndRun(r)
          /\ UNCHANGED calls
     ELSE IF res.text = <<>>
     THEN /\ ui' = log(ui, "idle")
          /\ runs' = EndRun(r)
          /\ UNCHANGED <<chat, calls>>
     ELSE LET trimmed == res.text
              c1 == chat \cup {Bubble(r, "user", trimmed)}
              req == LLM_request(env.cfgOK, <<>>, FALSE)
          IN IF ~clients \/ req.throw
             THEN /\ ReportError(ui, c1, r)
                  /\ runs' = EndRun(r)
                  /\ UNCHANGED calls
             ELSE /\ ui' = log(ui, "processing")
                  /\ chat' = c1
                  /\ calls' = calls \cup {Call("llm", r, <<>>, req.messages, <<>>)}
                  /\ runs' = Await(r, "llm", trimmed)

\* part_000 lines 112-137
WhisperDoneB(r, res) ==
  IF res.throw
  THEN /\ runs' = EndRun(r)
       /\ UNCHANGED <<ui, chat, calls, textQuery, chatHistory>>
  ELSE IF speaking
  THEN /\ textQuery' = textQuery \o res.text
       /\ runs' = EndRun(r)
       /\ UNCHANGED <<ui, chat, calls, chatHistory>>
  ELSE LET query == textQuery \o res.text
           h1 == addMessageToChat(chatHistory, "user", query)
           textToSend == IF Len(h1) > 0 THEN h1
                         ELSE <<[role |-> "user", text |-> query]>>
           req == LLM_request(env.cfgOK, textToSend, env.sysPrompt)
       IN /\ chatHistory' = h1
          /\ chat' = chat \cup {Bubble(r, "user", query)}
          /\ textQuery' = <<>>
          /\ ui' = log(ui, "processing")
          /\ IF ~clients \/ req.throw
             THEN /\ runs' = EndRun(r)
                  /\ UNCHANGED calls
             ELSE /\ calls' = calls \cup {Call("llm", r, <<>>, req.messages, <<>>)}
                  /\ runs' = Await(r, "llm", query)

WhisperDone(r, resp) ==
  /\ r.pc = "whisper"
  /\ IF variant = "A" THEN WhisperDoneA(r, Whisper_transcribe(resp, r.id))
                      ELSE WhisperDoneB(r, Whisper_transcribe(resp, r.id))
  /\ UNCHANGED <<sess, startPc, stale, stopping, vad, recorder, clients, tts, synth,
                 synthEvts, postRollTimer, nid, speaking, ttsSpeaking, hist>>
  /\ inputUnch /\ fixedUnch

\* --------------------------------------------------------- llm settles
\* tts.speak(text) as called by run r: [w, queued]
Speak(w, r) ==
  IF ~w.tts.on THEN [w |-> w, queued |-> FALSE]
  ELSE IF ~env.synthOK THEN [w |-> TTS_speakUnsupported(w), queued |-> FALSE]
  ELSE [w |-> TTS_speakQueued(w, r.id), queued |-> TRUE]

\* assistant.js lines 98-129
LLMDoneA(r, res) ==
  /\ UNCHANGED chatHistory
  /\ IF res.throw
     THEN /\ ReportError(ui, chat, r)
          /\ runs' = EndRun(r)
          /\ UNCHANGED <<tts, synth, synthEvts, calls>>
     ELSE IF res.text = <<>> \/ ~env.ttsOn
     THEN /\ ui' = log(ui, "idle")
          /\ chat' = IF res.text = <<>> THEN chat
                     ELSE chat \cup {Bubble(r, "assistant", res.text)}
          /\ runs' = EndRun(r)
          /\ UNCHANGED <<tts, synth, synthEvts, calls>>
     ELSE LET finalText == res.text
              sp == Speak(World, r)
          IN /\ chat' = chat \cup {Bubble(r, "assistant", finalText)}
             /\ IF sp.queued
                THEN /\ SetWorld(sp.w)
                     /\ calls' = calls \cup {Call("speak", r, <<>>, <<>>, finalText)}
                     /\ runs' = Await(r, "speak", finalText)
                ELSE /\ SetWorld([sp.w EXCEPT !.ui = log(sp.w.ui, "idle")])
                     /\ runs' = EndRun(r)
                     /\ UNCHANGED calls

\* part_000 lines 138-146
LLMDoneB(r, res) ==
  IF res.throw
  THEN /\ runs' = EndRun(r)
       /\ UNCHANGED <<ui, chat, chatHistory, tts, synth, synthEvts, calls>>
  ELSE LET response == res.text
           sp == Speak(World, r)
       IN /\ chatHistory' = addMessageToChat(chatHistory, "system", response)
          /\ chat' = chat \cup {Bubble(r, "system", response)}
          /\ SetWorld(sp.w)
          /\ IF sp.queued
             THEN /\ calls' = calls \cup {Call("speak", r, <<>>, <<>>, response)}
                  /\ runs' = Await(r, "speak", response)
             ELSE /\ runs' = EndRun(r)
                  /\ UNCHANGED calls

LLMDone(r, resp) ==
  /\ r.pc = "llm"
  /\ IF variant = "A" THEN LLMDoneA(r, LLM_parse(resp, r.id))
                      ELSE LLMDoneB(r, LLM_parse(resp, r.id))
  /\ UNCHANGED <<sess, startPc, stale, stopping, vad, recorder, clients,
                 postRollTimer, nid, speaking, ttsSpeaking, textQuery, hist>>
  /\ inputUnch /\ fixedUnch


\* ------------------------------------------------- speechSynthesis events
\* the continuation of `await tts.speak(...)` of the run that queued utt
Speaker(utt) == {r \in runs : r.id = utt /\ r.pc = "speak"}

\* the promise of speak() rejects: assistant.js logs 'Escuchando...', part_000
\* only writes to the console
SpeakRejected(w, utt) ==
  IF variant = "A" /\ Speaker(utt) # {} THEN [w EXCEPT !.ui = log(w.ui, "idle")] ELSE w

\* utterance.onstart: playback begins, speak() resolves; part_000 then sets
\* ttsSpeaking in the same task (promise continuation)
SynthStart ==
  /\ synth.phase = "pending"
  /\ synthEvts = <<>>
  /\ LET w == TTS_onstart(World, synth.owner)
     IN SetWorld([w EXCEPT !.synth.phase = "speaking"])
  /\ ttsSpeaking' = IF variant = "B" /\ Speaker(synth.utt) # {} THEN TRUE ELSE ttsSpeaking
  /\ runs' = runs \ Speaker(synth.utt)
  /\ UNCHANGED <<chat, sess, startPc, stale, stopping, vad, recorder, clients,
                 postRollTimer, nid, speaking, textQuery, chatHistory, calls, hist>>
  /\ inputUnch /\ fixedUnch

\* utterance.onend: playback ends by itself
SynthEnd ==
  /\ synth.phase = "speaking"
  /\ SetWorld(TTS_onend([World EXCEPT !.synth = SynthIdle], synth.owner))
  /\ UNCHANGED <<chat, sess, startPc, stale, stopping, vad, recorder, clients,
                 postRollTimer, runs, nid, speaking, ttsSpeaking, textQuery,
                 chatHistory, calls, hist>>
  /\ inputUnch /\ fixedUnch

\* utterance.onerror: synthesis fails before or during playback
SynthError ==
  /\ synth.phase \in {"pending", "speaking"}
  /\ synthEvts = <<>>
  /\ LET w == TTS_onend([World EXCEPT !.synth = SynthIdle], synth.owner)
     IN SetWorld(SpeakRejected(w, synth.utt))
  /\ runs' = runs \ Speaker(synth.utt)
  /\ UNCHANGED <<chat, sess, startPc, stale, stopping, vad, recorder, clients,
                 postRollTimer, nid, speaking, ttsSpeaking, textQuery,
                 chatHistory, calls, hist>>
  /\ inputUnch /\ fixedUnch

\* the event of an utterance removed by speechSynthesis.cancel(): browsers
\* fire 'error' (interrupted / canceled) or 'end'.  After 'end' the promise of
\* a speak() that had not started can never settle: its continuation is dropped.
SynthCancelled(kind) ==
  /\ synthEvts # <<>>
  /\ LET e == Head(synthEvts)
         w == TTS_onend([World EXCEPT !.evts = Tail(synthEvts)], e.owner)
     IN /\ SetWorld(IF kind = "error" THEN SpeakRejected(w, e.utt) ELSE w)
        /\ runs' = runs \ Speaker(e.utt)
  /\ UNCHANGED <<chat, sess, startPc, stale, stopping, vad, recorder, clients,
                 postRollTimer, nid, speaking, ttsSpeaking, textQuery,
                 chatHistory, calls, hist>>
  /\ inputUnch /\ fixedUnch

\* ------------------------------------------- other detector notifications
\* messages that are neither speech_start nor speech_end
OtherMessages ==
  { [json |-> FALSE, event |-> "", error |-> FALSE],      \* not JSON, or JSON null
    [json |-> TRUE,  event |-> "", error |-> TRUE],       \* {error: ...}
    [json |-> TRUE,  event |-> "", error |-> FALSE],      \* {status: ...}
    [json |-> TRUE,  event |-> "ping", error |-> FALSE] } \* {event: "ping"}

\* vad.on('error') of assistant.js; part_000 registers none
vadOnError(u) == IF variant = "A" /\ vad.wired THEN log(u, "error") ELSE u

\* socket.onmessage with a message that is neither speech_start nor speech_end:
\* _emit under the name VAD_onmessage gives; only 'error' has a listener
OtherNotification(m) ==
  /\ vad.on /\ vad.sock = "open"
  /\ ui' = IF VAD_onmessage(m) = "error" THEN vadOnError(ui) ELSE ui
  /\ hist' = [hist EXCEPT !.lastEmit = VAD_onmessage(m)]
  /\ UNCHANGED <<chat, sess, startPc, stale, stopping, vad, recorder, clients, tts,
                 synth, synthEvts, postRollTimer, runs>>
  /\ pipeUnch /\ inputUnch /\ fixedUnch

\* socket.onerror on the open socket: _emit('error', err)
SocketError ==
  /\ vad.on /\ vad.sock = "open"
  /\ ui' = vadOnError(ui)
  /\ hist' = [hist EXCEPT !.lastEmit = "error"]
  /\ UNCHANGED <<chat, sess, startPc, stale, stopping, vad, recorder, clients, tts,
                 synth, synthEvts, postRollTimer, runs>>
  /\ pipeUnch /\ inputUnch /\ fixedUnch

Next ==
  \/ StartClick
  \/ SocketOpen
  \/ SocketConnectFails
  \/ MicGranted
  \/ MicDenied
  \/ StopClick
  \/ StopFinish
  \/ StaleStartFails
  \/ SocketClosed
  \/ AudioFrame
  \/ SpeechStart
  \/ SpeechEnd
  \/ \E r \in runs : TimerFire(r)
  \/ \E r \in runs : \E resp \in WhisperResponses : WhisperDone(r, resp)
  \/ \E r \in runs : \E resp \in LLMResponses : LLMDone(r, resp)
  \/ SynthStart
  \/ SynthEnd
  \/ SynthError
  \/ \E kind \in {"end", "error"} : SynthCancelled(kind)
  \/ \E m \in OtherMessages : OtherNotification(m)
  \/ SocketError

Spec == Init /\ [][Next]_vars

\* ------------------------------------------------- an emitter on its own
\* The page stays as loaded while one component is driven by its methods.
pageUnch ==
  UNCHANGED <<variant, env, ui, chat, sess, startPc, stale, stopping, vad, clients,
              tts, synth, synthEvts, postRollTimer, runs, nid, speaking, ttsSpeaking,
              textQuery, chatHistory, calls, nframes, nstarts, nends, hist, probe>>

Register(e, cb) ==
  /\ Len(listeners[e]) < MaxListeners
  /\ listeners' = on(listeners, e, cb)
  /\ UNCHANGED <<emitted, recorder, abm, ended, trace>>
  /\ pageUnch

Unregister(e, cb) ==
  /\ \E i \in 1..Len(listeners[e]) : listeners[e][i] = cb
  /\ listeners' = off(listeners, e, cb)
  /\ UNCHANGED <<emitted, recorder, abm, ended, trace>>
  /\ pageUnch

Emit(e) ==
  /\ emitted' = emit(listeners, e)
  /\ UNCHANGED <<listeners, recorder, abm, ended, trace>>
  /\ pageUnch

EmitInit == Init /\ variant = "A"

EmitNext ==
  \/ \E e \in EventNames : \E cb \in Callbacks : Register(e, cb)
  \/ \E e \in EventNames : \E cb \in Callbacks : Unregister(e, cb)
  \/ \E e \in EventNames : Emit(e)

EmitSpec == EmitInit /\ [][EmitNext]_vars

\* --------------------- a Recorder and an AudioBufferManager on their own
\* Both objects get the same sequence of start, end and frame events.
\* a Float32Array of n samples delivered as frame number f
Chunk(f, n) == [f |-> f, lo |-> 1, hi |-> n]

ChunkLens == {FrameLen, 3 * FrameLen}

Delivered == Len(trace.loud) + Len(trace.quiet)

\* new Recorder({ sampleRate, preRollTime }), new AudioBufferManager()
Construct ==
  /\ ~recorder.on
  /\ recorder' = NewRecorder
  /\ abm' = NewABM
  /\ trace' = [NoTrace EXCEPT !.last = "new"]
  /\ UNCHANGED <<listeners, emitted, ended>>
  /\ pageUnch

\* recorder.markSpeechStart(), abm.startSpeech()
BufStart ==
  /\ recorder.on
  /\ recorder' = markSpeechStart(recorder)
  /\ abm' = ABM_startSpeech(abm)
  /\ trace' = [trace EXCEPT !.active = TRUE, !.pend = <<>>, !.last = "start"]
  /\ UNCHANGED <<listeners, emitted, ended>>
  /\ pageUnch

\* recorder.markSpeechEnd(), abm.endSpeech()
BufEnd ==
  /\ recorder.on
  /\ Len(ended) < MaxEnds
  /\ recorder' = markSpeechEnd(recorder)
  /\ abm' = ABM_endSpeech(abm).abm
  /\ ended' = Append(ended, ABM_endSpeech(abm).result)
  /\ trace' = [trace EXCEPT !.active = FALSE, !.pend = <<>>, !.last = "end"]
  /\ UNCHANGED <<listeners, emitted>>
  /\ pageUnch

\* recorder._handleAudioData(chunk), abm.push(chunk)
BufFrame(n) ==
  /\ recorder.on
  /\ Delivered < MaxPushes
  /\ LET chunk == Chunk(Delivered + 1, n)
     IN /\ recorder' = handleAudioData(recorder, chunk)
        /\ abm' = ABM_push(abm, chunk)
        /\ trace' = IF trace.active
                    THEN [trace EXCEPT !.loud = Append(@, chunk),
                                       !.pend = Append(@, chunk), !.last = "frame"]
                    ELSE [trace EXCEPT !.quiet = Append(@, chunk), !.last = "frame"]
  /\ UNCHANGED <<listeners, emitted, ended>>
  /\ pageUnch

BufInit == Init /\ variant = "B"

BufNext ==
  \/ Construct
  \/ BufStart
  \/ BufEnd
  \/ \E n \in ChunkLens : BufFrame(n)

BufSpec == BufInit /\ [][BufNext]_vars

\* ------------------------------------------------ functions on their own
\* a field of a response body: "none" when it is missing or no string,
\* "empty" a string that trims to "", "text" any other string
FieldShapes == {"none", "empty", "text"}

\* every status and body an LLM service can answer with
AnyLLMResponses ==
  [ok : BOOLEAN, content : FieldShapes, alt : FieldShapes, output_text : FieldShapes]

\* a call of a function changes nothing but the record of the call
fnUnch ==
  UNCHANGED <<variant, env, ui, chat, sess, startPc, stale, stopping, vad, recorder,
              clients, tts, synth, synthEvts, postRollTimer, runs, nid, speaking,
              ttsSpeaking, textQuery, chatHistory, calls, nframes, nstarts, nends, hist,
              listeners, emitted, abm, ended, trace>>

\* LLM.complete from the HTTP response on
Call_LLM_parse(resp) ==
  /\ probe' = [fn |-> "LLM_parse", arg |-> resp, out |-> LLM_parse(resp, 1)]
  /\ fnUnch

\* every status and body the Whisper service can answer with
AnyWhisperResponses == [ok : BOOLEAN, result_text : FieldShapes]

\* Whisper.transcribe from the HTTP response on
Call_Whisper_transcribe(resp) ==
  /\ probe' = [fn |-> "Whisper_transcribe", arg |-> resp,
               out |-> Whisper_transcribe(resp, 1)]
  /\ fnUnch

\* the messages arrays LLM.complete is called with: none (assistant.js),
\* or the history of part_000 ending with a user turn
AnyMessages ==
  { <<>>,
    <<[role |-> "user", text |-> <<1>>]>>,
    <<[role |-> "user", text |-> <<1>>], [role |-> "system", text |-> Reply(1, 1, "text")],
      [role |-> "user", text |-> <<2>>]>> }

\* LLM.complete up to fetch()
Call_LLM_request(cfgOK, messages, systemPrompt) ==
  /\ probe' = [fn |-> "LLM_request",
               arg |-> [cfgOK |-> cfgOK, messages |-> messages, systemPrompt |-> systemPrompt],
               out |-> LLM_request(cfgOK, messages, systemPrompt)]
  /\ fnUnch

\* ---- Recorder.createWavBlob, byte by byte ----

\* a Float32 sample is the fraction q / SampleDen; the range goes past -1 and 1
SampleValues == (0 - SampleDen - 2)..(SampleDen + 2)

RECURSIVE SeqsUpTo(_, _)
SeqsUpTo(S, n) ==
  IF n = 0 THEN {<<>>}
  ELSE LET shorter == SeqsUpTo(S, n - 1)
       IN shorter \cup {Append(q, x) : q \in {r \in shorter : Len(r) = n - 1}, x \in S}

\* writeString: the character codes of the four chunk names
RIFF_Chars == <<82, 73, 70, 70>>
WAVE_Chars == <<87, 65, 86, 69>>
fmt_Chars  == <<102, 109, 116, 32>>
data_Chars == <<100, 97, 116, 97>>

\* DataView.setUint32(_, x, true) and setUint16(_, x, true)
\* (each byte is taken modulo 256, which is the reduction to 32 bits)
setUint32(x) ==
  <<x % 256, (x \div 256) % 256, (x \div 65536) % 256, (x \div 16777216) % 256>>

setUint16(x) ==
  LET u == x % 65536
  IN <<u % 256, (u \div 256) % 256>>

\* the integer part of num / SampleDen, rounded towards zero as ToInt16 does
TruncDiv(num) ==
  IF num >= 0 THEN num \div SampleDen ELSE 0 - ((0 - num) \div SampleDen)

\* DataView.setInt16(_, v, true) of the number num / SampleDen
setInt16(num) == setUint16(TruncDiv(num))

\* Math.max(-1, Math.min(1, q / SampleDen)), as a numerator
Clamp(q) ==
  IF q > SampleDen THEN SampleDen
  ELSE IF q < 0 - SampleDen THEN 0 - SampleDen
  ELSE q

\* variation of the clamp that lets every sample through
Clamp_None(q) == q

\* s < 0 ? s * 0x8000 : s * 0x7fff, as a numerator
Scale(s) == IF s < 0 THEN s * 32768 ELSE s * 32767

\* variation of createWavBlob that scales the samples as they come
encodeSamples_NoClamp(audioData) ==
  [i \in 1..(2 * Len(audioData)) |->
     setInt16(Scale(Clamp_None(audioData[(i + 1) \div 2])))[2 - (i % 2)]]

\* the loop over the samples
encodeSamples(audioData) ==
  [i \in 1..(2 * Len(audioData)) |->
     setInt16(Scale(Clamp(audioData[(i + 1) \div 2])))[2 - (i % 2)]]

\* createWavBlob down to the bytes of the blob
createWavBlobBytes(audioData) ==
  LET n == Len(audioData)
  IN RIFF_Chars \o setUint32(36 + n * 2) \o WAVE_Chars \o fmt_Chars
     \o setUint32(16) \o setUint16(1) \o setUint16(1)
     \o setUint32(SAMPLE_RATE) \o setUint32(SAMPLE_RATE * 2)
     \o setUint16(2) \o setUint16(16)
     \o data_Chars \o setUint32(n * 2)
     \o encodeSamples(audioData)

Call_createWavBlob(audioData) ==
  /\ probe' = [fn |-> "createWavBlob", arg |-> audioData,
               out |-> createWavBlobBytes(audioData)]
  /\ fnUnch

FnInit == Init /\ variant = "A"

FnNext ==
  \/ \E resp \in AnyLLMResponses : Call_LLM_parse(resp)
  \/ \E resp \in AnyWhisperResponses : Call_Whisper_transcribe(resp)
  \/ \E cfgOK \in BOOLEAN, messages \in AnyMessages, systemPrompt \in BOOLEAN :
       Call_LLM_request(cfgOK, messages, systemPrompt)
  \/ \E audioData \in SeqsUpTo(SampleValues, MaxSamples) : Call_createWavBlob(audioData)

FnSpec == FnInit /\ [][FnNext]_vars

\* ------------------------------------------- the page with its clear button
\* click on clear-btn: the bubbles go; part_000 also empties chatHistory
ClearClick ==
  /\ chat' = {}
  /\ chatHistory' = IF variant = "B" THEN <<>> ELSE chatHistory
  /\ UNCHANGED <<ui, sess, startPc, stale, stopping, vad, recorder, clients, tts,
                 synth, synthEvts, postRollTimer, runs, nid, speaking, ttsSpeaking,
                 textQuery, calls, hist>>
  /\ inputUnch /\ fixedUnch

\* the orchestrator that keeps a history: sessions, speech notifications, the
\* pipeline and the clear button (audio content and the other notifications
\* do not reach the history)
HistInit == Init /\ variant = "B"

HistNext ==
  \/ StartClick
  \/ SocketOpen
  \/ MicGranted
  \/ StopClick
  \/ StopFinish
  \/ StaleStartFails
  \/ SpeechStart
  \/ SpeechEnd
  \/ \E r \in runs : TimerFire(r)
  \/ \E r \in runs : \E resp \in WhisperResponses : WhisperDone(r, resp)
  \/ \E r \in runs : \E resp \in LLMResponses : LLMDone(r, resp)
  \/ SynthStart
  \/ SynthEnd
  \/ SynthError
  \/ \E kind \in {"end", "error"} : SynthCancelled(kind)
  \/ ClearClick

HistSpec == HistInit /\ [][HistNext]_vars

\* ================================================================ properties
Transcribed == {c \in calls : c.op = "transcribe"}

\* C1: when a speech_start is handled while the post-roll delay of a
\* speech_end is still pending, the expiry of that delay issues no
\* transcription call, whatever follows (a second speech_end included).
C1_NoDispatchAfterResume == \A c \in Transcribed : ~c.sup

\* C2: a speech_start handled while the browser is playing the assistant's
\* utterance leaves, at the end of the handler, playback stopped and both
\* flags (TTSEngine._isPlaying, ttsSpeaking) false.
C2_BargeIn ==
  [][(nstarts' # nstarts /\ synth.phase = "speaking")
       => (synth'.phase = "idle" /\ ~tts'.isPlaying /\ ~ttsSpeaking')]_vars

\* a barge-in happened and the handler left playback stopped
C2_Witness ==
  /\ hist.barge /\ speaking
  /\ synth.phase = "idle" /\ ~ttsSpeaking /\ ~tts.isPlaying

\* C3: an utterance whose buffer holds fewer than 8000 samples is never
\* handed to the transcription step, in either orchestrator.
C3_ShortDiscarded == \A c \in Transcribed : SumLen(c.audio) >= MinSamples

\* a is a contiguous part of b
IsInfix(a, b) ==
  /\ Len(a) <= Len(b)
  /\ \E i \in 0..(Len(b) - Len(a)) : SubSeq(b, i + 1, i + Len(a)) = a

\* transcription calls of an utterance that was opened by a speech_start and
\* whose grace window saw no further speech_start
Finalized == {c \in Transcribed : c.open /\ ~c.sup /\ c.sess = c.now}

C5_PipelineOrder ==
  /\ clients =>
       \A b \in chat :
          b.role = "user" =>
            \E c \in calls :
               /\ c.op = "llm" /\ c.run = b.run /\ Len(c.msgs) > 0
               /\ c.msgs[Len(c.msgs)] = [role |-> "user", content |-> b.text]
  /\ \A c \in calls :
       /\ c.op = "llm" => \E t \in Transcribed : t.run = c.run
       /\ c.op = "speak" =>
            /\ \E l \in calls : l.op = "llm" /\ l.run = c.run
            /\ \E j \in 1..3 : c.text = Reply(c.run, j, "text")

\* the error is shown and the failed run issues no further request
Surfaced == ui'.status = "error" /\ calls' = calls

\* C6: while the session runs, a failed transcription or a failed LLM request
\* ends the run without further requests and shows an error on the page.
C6_FailureSurfaced ==
  [][\A r \in runs :
       (r.sess = sess /\ ~ui.stopDisabled) =>
         /\ \A resp \in WhisperResponses :
              (WhisperDone(r, resp) /\ Whisper_transcribe(resp, r.id).throw) => Surfaced
         /\ \A resp \in LLMResponses :
              (LLMDone(r, resp) /\ LLM_parse(resp, r.id).throw) => Surfaced]_vars

\* C7: whenever the browser is not playing an utterance, TTSEngine._isPlaying
\* and ttsSpeaking are both false.
C7_FlagTracksPlayback == (synth.phase # "speaking") => (~tts.isPlaying /\ ~ttsSpeaking)

\* C8: after connect() of the current session rejected, the page shows the
\* error, capture was never started, the session is stopped, no timer is
\* pending and no listener is registered.
C8_ConnectFailure ==
  (sess > 0 /\ hist.connFailed = sess) =>
    /\ ui.status = "error"
    /\ ~recorder.ctx /\ ~recorder.live
    /\ ui.stopDisabled /\ ~ui.startDisabled
    /\ postRollTimer = 0
    /\ ~vad.wired /\ ~tts.wired

\* the segmentation state: recording flag, utterance buffer, post-roll timer
\* and pending runs, playback
SegState ==
  <<recorder, postRollTimer, runs, speaking, textQuery, tts, synth, synthEvts, ttsSpeaking>>

\* a notification step is one that changes the last emitted name
Notified == hist'.lastEmit # hist.lastEmit

\* C9 as stated: a notification that is neither speech_start nor speech_end
\* leaves the segmentation state as it was, and a message that is valid JSON
\* without an error field is emitted as 'message'.
C9_AsStated ==
  [][/\ Notified => UNCHANGED SegState
     /\ \A m \in OtherMessages :
          (OtherNotification(m) /\ Notified /\ m.json /\ ~m.error)
            => hist'.lastEmit = "message"]_vars

\* C9 as the code has it: the segmentation state is left as it was; a message
\* is emitted as 'message' exactly when it is valid JSON with neither an event
\* nor an error field, and a message with an event field under that name.
C9_NotificationFrame ==
  [][/\ Notified => UNCHANGED SegState
     /\ \A m \in OtherMessages :
          (OtherNotification(m) /\ Notified) =>
             /\ hist'.lastEmit = "message" <=> (m.json /\ m.event = "" /\ ~m.error)
             /\ (m.json /\ m.event # "") => hist'.lastEmit = m.event]_vars

\* a message without event or error field was emitted as 'message' while an
\* utterance was being recorded and a post-roll delay was pending
C9_Witness ==
  /\ hist.lastEmit = "message"
  /\ recorder.isRecording /\ \E r \in runs : r.pc = "timer"

\* C10: once the open socket of the current session has closed, the session
\* is torn down: no detector, no capture, no pending post-roll timer.
C10_TornDown ==
  (sess > 0 /\ hist.sockLost = sess) =>
    (~vad.on /\ ~recorder.live /\ postRollTimer = 0)

\* C11: when _emit (VAD, TTSEngine) is called for an event, every callback
\* registered for that event is called, in registration order, also after one
\* of them threw, and _emit does not throw to its caller.
C11_ListenersIsolated ==
  [][\A e \in EventNames :
       Emit(e) => (emitted'.called = listeners[e] /\ ~emitted'.threw)]_vars

\* an emit called two different callbacks although the first of them threw
C11_Witness ==
  /\ emitted.event # "" /\ ~emitted.threw
  /\ Len(emitted.called) = 2
  /\ emitted.called[1] \in Throwing /\ emitted.called[2] \notin Throwing
  /\ emitted.called = listeners[emitted.event]

\* C12: a start signal that arrives while an utterance is already active
\* leaves the frames buffered for it unchanged, in the AudioBufferManager
\* driven directly and in the Recorder.
C12_StartIdempotent ==
  [][(BufStart /\ trace.active) =>
       (abm'.buffer = abm.buffer /\ recorder'.buffer = recorder.buffer)]_vars

Range(s) == {s[i] : i \in 1..Len(s)}

\* C13: after any sequence of start, end and frame events the utterance
\* buffer (of the manager and of the Recorder) holds only frames delivered
\* while an utterance was active; a frame delivered while none is active is
\* not in it and is the newest content of the pre-roll buffer.
C13_OnlyActiveFrames ==
  /\ Range(abm.buffer) \subseteq Range(trace.loud)
  /\ Range(recorder.buffer) \subseteq Range(trace.loud)
  /\ abm.buffer = trace.pend
  /\ trace.quiet # <<>> =>
       /\ recorder.preRoll # <<>>
       /\ recorder.preRoll[Len(recorder.preRoll)].f = trace.quiet[Len(trace.quiet)].f
       /\ recorder.preRoll[Len(recorder.preRoll)].hi = trace.quiet[Len(trace.quiet)].hi

\* a frame just arrived while no utterance was active, after an utterance
\* whose frames the Recorder still holds
C13_Witness ==
  /\ trace.last = "frame" /\ ~trace.active
  /\ recorder.buffer # <<>> /\ abm.buffer = <<>>
  /\ Len(trace.quiet) >= 2

\* C14: endSpeech() returns the frames pushed while active since the last
\* start, in push order, and leaves the manager empty and inactive; called
\* right after another endSpeech(), or with nothing buffered, it returns an
\* empty array.
C14_EndSpeech ==
  [][BufEnd =>
       /\ ended'[Len(ended')] = trace.pend
       /\ abm'.buffer = <<>> /\ ~abm'.speechActive
       /\ trace.last = "end" => ended'[Len(ended')] = <<>>
       /\ abm.buffer = <<>> => ended'[Len(ended')] = <<>>]_vars

\* two frames were pushed into one utterance; the first endSpeech() returned
\* both and the next one, right after it, returned nothing
C14_Witness ==
  /\ Len(ended) = 2 /\ trace.last = "end"
  /\ Len(ended[1]) = 2 /\ ended[1] = trace.loud
  /\ ended[1][1].f < ended[1][2].f
  /\ ended[2] = <<>>
  /\ Delivered = 2

\* the newest n samples of a chunk sequence, counted from its end
RECURSIVE TakeBack(_, _)
TakeBack(s, n) ==
  IF n <= 0 \/ s = <<>> THEN <<>>
  ELSE LET h == s[Len(s)]
           l == h.hi - h.lo + 1
       IN IF l <= n THEN Append(TakeBack(SubSeq(s, 1, Len(s) - 1), n - l), h)
          ELSE <<[h EXCEPT !.lo = h.hi - n + 1]>>

\* C15: the pre-roll buffer never holds more than sampleRate x preRollTime
\* samples and is exactly the newest samples, in arrival order, of the frames
\* delivered while no utterance was active; frames delivered while one is
\* active do not change it.
C15_PreRollFIFO ==
  /\ SumLen(recorder.preRoll) <= preRollSamples
  /\ recorder.preRoll = TakeBack(trace.quiet, preRollSamples)

\* more than the capacity arrived outside an utterance, with a frame inside one
\* in between: the buffer is full and begins in the middle of the oldest frame
C15_Witness ==
  /\ SumLen(trace.quiet) > preRollSamples
  /\ SumLen(recorder.preRoll) = preRollSamples
  /\ recorder.preRoll[1].lo > 1
  /\ Len(recorder.preRoll) = 2
  /\ trace.loud # <<>> /\ trace.loud[1].f = 2

\* C16: the audio held in the pre-roll buffer when a speech_start opens an
\* utterance is drained, in order, into the utterance: after the handler the
\* utterance buffer begins with it and the pre-roll buffer is empty.
C16_PreRollUsed ==
  [][(nstarts' # nstarts /\ ~recorder.isRecording /\ recorder.preRoll # <<>>)
       => (recorder'.buffer = recorder.preRoll /\ recorder'.preRoll = <<>>)]_vars

\* post-roll delays of session k that were set and have neither fired nor
\* been cleared
Outstanding(k) == {r \in runs : r.pc = "timer" /\ r.sess = k}

\* C17: at any time at most one post-roll delayed action of a session is
\* outstanding (a new speech_end replaces the one scheduled before).
C17_SingleTimer == \A k \in 1..sess : Cardinality(Outstanding(k)) <= 1

\* C18: buffered audio is consumed once: a finalization that hands audio to
\* transcription leaves the utterance buffer empty, and none of its frames
\* was handed to transcription by an earlier finalization.
C18_ConsumedOnce ==
  [][Transcribed' # Transcribed =>
       /\ recorder'.buffer = <<>>
       /\ \A c \in Transcribed' \ Transcribed : \A d \in Transcribed :
             Range(c.audio) \cap Range(d.audio) = {}]_vars

\* the user turn that ends the messages of an LLM request
Query(c) == c.msgs[Len(c.msgs)].content

\* C19: textQuery is cleared exactly when it is dispatched: the step of the
\* part_000 listener that takes a transcript while nobody speaks empties
\* textQuery and issues an LLM request that ends with the accumulated text,
\* no other step empties it, and no two requests carry the same text.
C19_ClearedWhenDispatched ==
  [][/\ \A r \in runs : \A resp \in WhisperResponses :
          ( /\ variant = "B" /\ WhisperDone(r, resp)
            /\ ~Whisper_transcribe(resp, r.id).throw /\ ~speaking )
          => /\ textQuery' = <<>>
             /\ \E c \in calls' \ calls :
                   /\ c.op = "llm"
                   /\ Query(c) = textQuery \o Whisper_transcribe(resp, r.id).text
     /\ (textQuery # <<>> /\ textQuery' = <<>>) =>
          \E c \in calls' \ calls : c.op = "llm"
     /\ \A c \in calls' : \A d \in calls' :
          (c.op = "llm" /\ d.op = "llm" /\ c.run # d.run) =>
             Range(Query(c)) \cap Range(Query(d)) = {}]_vars

\* texts produced by the LLM (see Reply)
IsReply(text) == text # <<>> /\ text[1] < 0

\* C20: the history records a transcription as a turn with role user and a
\* reply of the LLM as a turn with role assistant, and an LLM request lists
\* the earlier replies under the assistant role.
C20_TurnRoles ==
  /\ \A i \in 1..Len(chatHistory) :
        chatHistory[i].role = IF IsReply(chatHistory[i].text) THEN "assistant" ELSE "user"
  /\ \A c \in calls :
        c.op = "llm" =>
          \A i \in 1..Len(c.msgs) :
             IsReply(c.msgs[i].content) => c.msgs[i].role = "assistant"

\* C21: every step that changes chatHistory appends exactly one turn at its
\* end, or is the click on the clear button, which empties it; stop, start
\* and failing pipeline steps leave it as it is.
C21_AppendOnly ==
  [][\/ chatHistory' = chatHistory
     \/ /\ Len(chatHistory') = Len(chatHistory) + 1
        /\ SubSeq(chatHistory', 1, Len(chatHistory)) = chatHistory
     \/ ClearClick /\ chatHistory' = <<>>]_vars

\* the history holds a user turn, a reply and a second user turn whose
\* request failed, and the session has been stopped
C21_Witness ==
  /\ Len(chatHistory) = 3 /\ chatHistory[3].role = "user"
  /\ ~clients /\ ui.stopDisabled
  /\ \A c \in calls : c.op = "llm" => c.run # chatHistory[3].text[1]

\* C22: LLM.complete fails when the status is no success or none of the
\* three fields is a string; otherwise it returns the text of the
\* chat-message content if that is a string, else of choices[0].text if that
\* is a string, else of output_text.
C22_ParsePriority ==
  probe.fn = "LLM_parse" =>
    LET r == probe.arg
        o == probe.out
    IN /\ o.throw <=> ( \/ ~r.ok
                        \/ (r.content = "none" /\ r.alt = "none" /\ r.output_text = "none") )
       /\ o.throw => o.text = <<>>
       /\ (r.ok /\ r.content # "none") => o.text = Reply(1, 1, r.content)
       /\ (r.ok /\ r.content = "none" /\ r.alt # "none") => o.text = Reply(1, 2, r.alt)
       /\ (r.ok /\ r.content = "none" /\ r.alt = "none" /\ r.output_text # "none")
            => o.text = Reply(1, 3, r.output_text)

\* a body without content whose choices[0].text and output_text are both
\* strings: the reply is the text of choices[0].text
C22_Witness ==
  /\ probe.fn = "LLM_parse" /\ probe.arg.ok
  /\ probe.arg.content = "none" /\ probe.arg.alt = "text" /\ probe.arg.output_text = "text"
  /\ probe.out = [throw |-> FALSE, text |-> Reply(1, 2, "text")]

\* C23: Whisper.transcribe returns a text exactly when the status is a
\* success and result_text is a string, and then the text of that field; for
\* any other status or body it fails and returns nothing.
C23_TranscribeResult ==
  probe.fn = "Whisper_transcribe" =>
    LET r == probe.arg
        o == probe.out
    IN /\ ~o.throw <=> (r.ok /\ r.result_text # "none")
       /\ o.throw => o.text = <<>>
       /\ (r.ok /\ r.result_text = "text") => o.text = <<1>>
       /\ (r.ok /\ r.result_text = "empty") => o.text = <<>>

\* a success status with a body that has no result_text: the call failed
C23_Witness ==
  /\ probe.fn = "Whisper_transcribe"
  /\ probe.arg = [ok |-> TRUE, result_text |-> "none"]
  /\ probe.out.throw

\* what a WAV reader makes of the bytes: unsigned and signed little-endian fields
readU16(b, at) == b[at + 1] + 256 * b[at + 2]

readU32(b, at) ==
  b[at + 1] + 256 * b[at + 2] + 65536 * b[at + 3] + 16777216 * b[at + 4]

readI16(b, at) ==
  IF readU16(b, at) >= 32768 THEN readU16(b, at) - 65536 ELSE readU16(b, at)

\* the int16 a sample q / SampleDen stands for once limited to [-1, 1]:
\* the clamped value times 32768 (negative) or 32767, fraction dropped
ExpectedInt16(q) ==
  LET c == IF q > SampleDen THEN SampleDen
           ELSE IF q < 0 - SampleDen THEN 0 - SampleDen ELSE q
  IN IF c < 0 THEN 0 - (((0 - c) * 32768) \div SampleDen)
     ELSE (c * 32767) \div SampleDen

\* C24: createWavBlob of N samples gives 44 + 2N bytes: the RIFF/WAVE header
\* with RIFF size 36 + 2N, fmt chunk of 16 bytes declaring PCM, one channel,
\* the capture sample rate, byte rate = sample rate x 2, block align 2 and
\* 16 bits per sample, a data chunk of size 2N, and then the N samples as
\* little-endian int16, each the sample limited to [-1, 1] and scaled, so
\* each lies in -32768..32767 and has the sign of the sample.
C24_WavLayout ==
  probe.fn = "createWavBlob" =>
    LET a == probe.arg
        b == probe.out
        n == Len(a)
    IN /\ Len(b) = 44 + 2 * n
       /\ \A i \in 1..Len(b) : b[i] \in 0..255
       /\ SubSeq(b, 1, 4) = <<82, 73, 70, 70>>
       /\ readU32(b, 4) = 36 + 2 * n
       /\ SubSeq(b, 9, 12) = <<87, 65, 86, 69>>
       /\ SubSeq(b, 13, 16) = <<102, 109, 116, 32>>
       /\ readU32(b, 16) = 16
       /\ readU16(b, 20) = 1
       /\ readU16(b, 22) = 1
       /\ readU32(b, 24) = SAMPLE_RATE
       /\ readU32(b, 28) = SAMPLE_RATE * 2
       /\ readU16(b, 32) = 2
       /\ readU16(b, 34) = 16
       /\ SubSeq(b, 37, 40) = <<100, 97, 116, 97>>
       /\ readU32(b, 40) = 2 * n
       /\ \A i \in 1..n :
            LET d == readI16(b, 44 + 2 * (i - 1))
            IN /\ d = ExpectedInt16(a[i])
               /\ d \in (0 - 32768)..32767
               /\ (a[i] >= 0) <=> (d >= 0)

\* two samples outside [-1, 1], one on each side, were encoded as the extremes
C24_Witness ==
  /\ probe.fn = "createWavBlob"
  /\ probe.arg = <<SampleDen + 2, 0 - SampleDen - 1>>
  /\ Len(probe.out) = 48
  /\ SubSeq(probe.out, 45, 48) = <<255, 127, 0, 128>>

\* the engine is reset and speechSynthesis has nothing queued or playing
Stopped(w) ==
  /\ ~TTS_isPlaying(w.tts)
  /\ w.tts.utterance = 0
  /\ w.synth.phase = "idle"

\* the steps in which a handler calls tts.stop()
StopCalled ==
  \/ SpeechStart /\ (IF variant = "A" THEN tts.on /\ TTS_isPlaying(tts) ELSE ttsSpeaking)
  \/ (StopClick \/ StaleStartFails) /\ tts.on

\* C25: in every state of a running engine (playing, utterance queued and
\* not started, nothing playing) stop() leaves isPlaying() false, no
\* utterance retained and the playback cancelled; and this is the state
\* right after every step in which a handler calls it, the utterance that
\* was queued or playing having been taken out by that step.
C25_StopSafe ==
  [][/\ tts.on => Stopped(TTS_stop(World))
     /\ StopCalled =>
          /\ Stopped([tts |-> tts', synth |-> synth'])
          /\ synth.phase # "idle" =>
               synthEvts' = Append(synthEvts, [utt |-> synth.utt, owner |-> synth.owner])]_vars

\* a reply was being played when speech started: stop() has cancelled it, the
\* utterance's own event is still to come
C25_Witness ==
  /\ variant = "B"
  /\ Detecting
  /\ tts.on
  /\ speaking
  /\ ~ttsSpeaking
  /\ synthEvts # <<>>
  /\ Stopped(World)

\* ---- the running page, with and without speechSynthesis in window ----
NoSynthEnv == [GoodEnv EXCEPT !.synthOK = FALSE]

TtsInit == InitWith({GoodEnv, NoSynthEnv})

TtsSpec == TtsInit /\ [][Next]_vars

\* the steps in which the promise of tts.speak(...) of run id rejects
SpeakRejects(id) ==
  \/ \E r \in runs, resp \in LLMResponses :
       /\ r.id = id
       /\ LLMDone(r, resp)
       /\ ~LLM_parse(resp, r.id).throw
       /\ tts.on /\ ~env.synthOK
       /\ variant = "A" => (LLM_parse(resp, r.id).text # <<>> /\ env.ttsOn)
  \/ SynthError /\ synth.utt = id /\ Speaker(id) # {}
  \/ SynthCancelled("error") /\ Head(synthEvts).utt = id /\ Speaker(id) # {}

\* C26: a step in which tts.speak rejects leaves the reply of that run in
\* the chat, adds no error bubble and does not put the page in the error
\* state, leaves the engine not playing and the assistant-speaking flag of
\* the page false, and leaves detector, recorder and session as they were.
C26_SpeakFailure ==
  [][\A id \in 1..(MaxEnds + 1) :
       SpeakRejects(id) =>
         /\ \E b \in chat' : b.run = id /\ b.role \in {"assistant", "system"}
         /\ \A b \in chat' \ chat : b.role # "error"
         /\ ui'.status # "error"
         /\ ~TTS_isPlaying(tts')
         /\ ~ttsSpeaking'
         /\ vad' = vad /\ recorder' = recorder /\ sess' = sess]_vars

\* C27: in assistant.js a speech_start that arrives during the post-roll
\* delay empties the speech buffer, and the utterance sent after such a
\* restart is exactly the frames delivered between the restart and its
\* speech_end: the frames buffered before the pause and the frames delivered
\* during the pause are in no transcription request.
C27_RestartDiscards ==
  [][variant = "A" =>
       /\ (SpeechStart /\ GraceOpen) =>
            (recorder'.buffer = <<>> /\ postRollTimer' = 0)
       /\ \A c \in Transcribed' \ Transcribed :
            hist.restart =>
              /\ c.audio = hist.seg
              /\ \A c2 \in Transcribed' : Range(c2.audio) \cap Range(hist.lost) = {}]_vars

\* an utterance was sent after a restart, without the frame buffered before
\* the pause
C27_Witness ==
  /\ variant = "A"
  /\ hist.restart
  /\ hist.lost = <<Frame(1)>>
  /\ \E c \in Transcribed : c.audio = <<Frame(2)>>

\* text b begins with text a
StartsWith(b, a) == Len(a) <= Len(b) /\ SubSeq(b, 1, Len(a)) = a

\* the requests to the LLM
Dispatched == {c \in calls : c.op = "llm"}

\* C28: in part_000 a transcript that arrives while speech has resumed is
\* appended to textQuery and no request is made; when a later transcript
\* arrives while nobody speaks, the request made in that step ends with the
\* kept text followed by the new transcript and textQuery is emptied; the
\* kept text leaves textQuery in no other way, and no two requests end with
\* the same text.
C28_KeptThenSent ==
  [][variant = "B" =>
       /\ \A r \in runs : \A resp \in WhisperResponses :
            (WhisperDone(r, resp) /\ ~Whisper_transcribe(resp, r.id).throw) =>
               LET transcript == Whisper_transcribe(resp, r.id).text
               IN /\ speaking =>
                       (textQuery' = textQuery \o transcript /\ Dispatched' = Dispatched)
                  /\ (~speaking /\ textQuery # <<>>) =>
                       /\ textQuery' = <<>>
                       /\ \E c \in Dispatched' \ Dispatched :
                             Query(c) = textQuery \o transcript
       /\ (textQuery # <<>> /\ ~StartsWith(textQuery', textQuery)) =>
            \E c \in Dispatched' \ Dispatched : StartsWith(Query(c), textQuery)
       /\ \A c \in Dispatched' : \A d \in Dispatched' :
            c # d => Range(Query(c)) \cap Range(Query(d)) = {}]_vars

\* C29: LLM.complete called with all three settings, a text and no messages
\* array builds one request whose messages are a single user message (after
\* the system message, when a system prompt is given).
C29_TextOnlyRequest ==
  (/\ probe.fn = "LLM_request"
   /\ probe.arg.cfgOK
   /\ probe.arg.messages = <<>>)
  => /\ ~probe.out.throw
     /\ Len(probe.out.messages) = IF probe.arg.systemPrompt THEN 2 ELSE 1
     /\ probe.out.messages[Len(probe.out.messages)].role = "user"

\* the pipeline runs that wait for Whisper, for the LLM or for playback to start
InFlight == {r \in runs : r.pc \in {"whisper", "llm", "speak"}}

\* C30: a transcription request is only issued when no earlier run is waiting
\* for its transcription, its LLM reply or the start of its playback, so at
\* most one run is in flight.
C30_OneInFlight ==
  [][/\ Transcribed' # Transcribed => InFlight = {}
     /\ Cardinality(InFlight') <= 1]_vars

\* the requests to speak
Spoken == {c \in calls : c.op = "speak"}

\* C31: while the user is speaking (a speech_start was processed and no
\* speech_end has followed) no pipeline run requests synthesis and no
\* playback begins.
C31_NoPlaybackWhileSpeaking ==
  [][(hist.open /\ hist'.open) =>
       /\ Spoken' = Spoken
       /\ synth'.phase = "speaking" => synth.phase = "speaking"]_vars

\* stopDetection has returned for the session that created run r
OfStoppedSession(r) == r.sess < sess \/ ui.stopDisabled

\* the steps of pipeline run r
RunStep(r) ==
  \/ TimerFire(r)
  \/ \E resp \in WhisperResponses : WhisperDone(r, resp)
  \/ \E resp \in LLMResponses : LLMDone(r, resp)

\* C32: a step of a pipeline run whose session has been stopped issues no
\* service call (transcription, LLM, speak), reports no error (no error
\* bubble, page not put in the error state) and leaves the synthesizer
\* alone; and no utterance of a stopped session starts playing.
C32_StoppedSessionSilent ==
  [][/\ \A r \in runs :
          (OfStoppedSession(r) /\ RunStep(r)) =>
             /\ calls' = calls
             /\ \A b \in chat' \ chat : b.role # "error"
             /\ ui'.status = "error" => ui.status = "error"
             /\ synth' = synth
     /\ (SynthStart /\ (ui.stopDisabled \/ synth.owner < sess)) => FALSE]_vars

====
